---- MODULE Spec2Model ----
(***************************************************************************)
(* A model of zk, a plaintext zettelkasten manager (zk/zettel.py and       *)
(* zk/main.py): the note entity and its identifier validation, the on-disk *)
(* note codec, the citation pattern, the note store with the edit and      *)
(* _prepare commands, and the git synchronizer run by the sync command.    *)
(*                                                                         *)
(* Text is modelled as a sequence of one-character strings, so that the    *)
(* regular expressions, str.strip, print and the line iteration of a file  *)
(* are computed character by character as Python computes them.            *)
(***************************************************************************)
EXTENDS Integers, Sequences, FiniteSets, TLC

VARIABLES
    obj, arg, outcome,            \* Zettel construction and id assignment
    stem, file, note, loaded,     \* one note file: Zettel.save_to_file / load_from_file
    content, refs,                \* citation scan of content lines
    pc, log, err, exitCode,       \* one run of `zk sync`
    store, saved, last, editing   \* the Zettelkasten directory and the commands on it

idVars    == <<obj, arg, outcome>>
codecVars == <<stem, file, note, loaded>>
refVars   == <<content, refs>>
syncVars  == <<pc, log, err, exitCode>>
storeVars == <<store, saved, last, editing>>
vars      == <<idVars, codecVars, refVars, syncVars, storeVars>>

(***************************************************************************)
(* Bounds of the model.                                                    *)
(***************************************************************************)
MaxIdLen   == 2    \* longest string offered as an identifier
MaxLines   == 3    \* most lines of a file found on disk
MaxRefLen  == 3    \* longest generated content line of the citation scan
MaxOutput  == 1    \* most output lines of one shell report
MaxContent == 1    \* most content lines of a note offered to save

(***************************************************************************)
(* Characters and strings.                                                 *)
(***************************************************************************)
NL == "\n"
BS == "\\"
SP == " "

\* The characters Python's \w matches, among those the model uses.
WordChars ==
    {"a", "b", "c", "d", "e", "f", "g", "h", "i", "j", "k", "l", "m",
     "n", "o", "p", "q", "r", "s", "t", "u", "v", "w", "x", "y", "z",
     "0", "1", "2", "3", "4", "5", "6", "7", "8", "9", "_"}

\* The characters str.strip() removes, among those the model uses.
Whitespace == {SP, NL}

\* Every character of the model, and those "." matches (all but the line feed).
AllChars == WordChars \cup {"-", ":", "@", "/", ".", BS, SP, NL}
NotNL    == AllChars \ {NL}

Range(s) == {s[i] : i \in 1..Len(s)}

\* All strings over the characters cs of length at most n.
RECURSIVE StringsUpTo(_, _)
StringsUpTo(cs, n) ==
    IF n = 0 THEN {<<>>}
    ELSE LET shorter == StringsUpTo(cs, n - 1)
         IN  shorter \cup {Append(s, c) : s \in shorter, c \in cs}

\* All sequences of at most n elements of the set S.
RECURSIVE SeqsUpTo(_, _)
SeqsUpTo(S, n) ==
    IF n = 0 THEN {<<>>}
    ELSE LET shorter == SeqsUpTo(S, n - 1)
         IN  shorter \cup {Append(s, x) : s \in shorter, x \in S}

\* The concatenation of a sequence of strings.
RECURSIVE Concat(_)
Concat(ss) == IF ss = <<>> THEN <<>> ELSE Head(ss) \o Concat(Tail(ss))

\* The length of the longest run of characters of class cls starting at s[i].
RECURSIVE RunLen(_, _, _)
RunLen(s, i, cls) ==
    IF i <= Len(s) /\ s[i] \in cls THEN 1 + RunLen(s, i + 1, cls) ELSE 0

\* str.strip(): leading and trailing whitespace removed.
RECURSIVE LStrip(_)
LStrip(s) == IF s # <<>> /\ Head(s) \in Whitespace THEN LStrip(Tail(s)) ELSE s

RECURSIVE RStrip(_)
RStrip(s) ==
    IF s # <<>> /\ s[Len(s)] \in Whitespace
    THEN RStrip(SubSeq(s, 1, Len(s) - 1)) ELSE s

Strip(s) == RStrip(LStrip(s))

(***************************************************************************)
(* The patterns of zettel.py.                                              *)
(***************************************************************************)
\* The class [\w-] of ZETTEL_METADATA_PATTERN and ZETTEL_VALID_ID_PATTERN.
IdClass == WordChars \cup {"-"}

\* The class [\\w-] of ZETTEL_REF_PATTERN: in a raw string the two
\* backslashes are an escaped backslash, so the class holds the backslash,
\* the letter w and the hyphen.
RefClass == {BS, "w", "-"}

\* Where Python's $ matches (no MULTILINE flag): at the end of the string
\* and just before a line feed that ends the string.
AtDollar(s, i) == i = Len(s) + 1 \/ (i = Len(s) /\ s[i] = NL)

\* re.match(ZETTEL_VALID_ID_PATTERN, s), as a truth value: ^[\w-]+$
MatchValidId(s) ==
    \E n \in 1..RunLen(s, 1, IdClass) : AtDollar(s, n + 1)

NoMatch == [tag |-> "NoMatch"]

\* re.match(ZETTEL_METADATA_PATTERN, line): ^([\w-]+):(.*)$
\* The key is the run of [\w-] before the colon; "." matches anything but a
\* line feed, so group 2 runs to the first line feed or to the end.
MatchMetadata(line) ==
    LET k == RunLen(line, 1, IdClass)
    IN  IF k >= 1 /\ k < Len(line) /\ line[k + 1] = ":"
        THEN LET d == RunLen(line, k + 2, NotNL)
             IN  IF AtDollar(line, k + 2 + d)
                 THEN [tag |-> "Match",
                       group1 |-> SubSeq(line, 1, k),
                       group2 |-> SubSeq(line, k + 2, k + 1 + d)]
                 ELSE NoMatch
        ELSE NoMatch

\* re.findall(ZETTEL_REF_PATTERN, line) from position i: @([\\w-]+), the
\* non-overlapping matches from left to right, each giving its group 1.
RECURSIVE FindAllRefs(_, _)
FindAllRefs(line, i) ==
    IF i > Len(line) THEN <<>>
    ELSE LET n == RunLen(line, i + 1, RefClass)
         IN  IF line[i] = "@" /\ n >= 1
             THEN <<SubSeq(line, i + 1, i + n)>> \o FindAllRefs(line, i + 1 + n)
             ELSE FindAllRefs(line, i + 1)

(***************************************************************************)
(* Python values: None, exceptions, and a dict as the sequence of its      *)
(* <<key, value>> items in insertion order (keys distinct).                *)
(***************************************************************************)
None == [tag |-> "None"]

ValueError(msg) == [tag |-> "ValueError", msg |-> msg]

DictKeys(d) == {d[i][1] : i \in 1..Len(d)}

DictGet(d, k) == d[CHOOSE i \in 1..Len(d) : d[i][1] = k][2]

\* d[k] = v: an existing key keeps its position.
DictSet(d, k, v) ==
    IF k \in DictKeys(d)
    THEN [i \in 1..Len(d) |-> IF d[i][1] = k THEN <<k, v>> ELSE d[i]]
    ELSE Append(d, <<k, v>>)

\* del d[k]
DictDel(d, k) == LET Keep(item) == item[1] # k IN SelectSeq(d, Keep)

\* {**d, **e}
RECURSIVE DictUpdate(_, _)
DictUpdate(d, e) ==
    IF e = <<>> THEN d
    ELSE DictUpdate(DictSet(d, Head(e)[1], Head(e)[2]), Tail(e))

\* d == e on dicts: the same items, in any order.
DictEq(d, e) == Range(d) = Range(e)

(***************************************************************************)
(* class Zettel                                                            *)
(***************************************************************************)
TITLE == <<"t", "i", "t", "l", "e">>

\* Zettel.id setter: the condition under which it raises.
IdSetterRaises(id) == ~MatchValidId(id)

\* Zettel.__init__: the new object, or the ValueError the id setter raises.
\* An absent or empty title, metadata or content takes its default.
Zettel(id, title, metadata, zcontent) ==
    IF IdSetterRaises(id) THEN ValueError("Invalid ID for zettel")
    ELSE [tag      |-> "Zettel",
          id       |-> id,
          title    |-> IF title = <<>> THEN id ELSE title,
          metadata |-> metadata,
          content  |-> zcontent]

\* Iterating a text file: the lines, each with its line feed; a last line
\* without one is a line too.
RECURSIVE SplitLines(_)
SplitLines(text) ==
    IF text = <<>> THEN <<>>
    ELSE LET n == RunLen(text, 1, NotNL)
         IN  IF n = Len(text) THEN <<text>>
             ELSE <<SubSeq(text, 1, n + 1)>>
                      \o SplitLines(SubSeq(text, n + 2, Len(text)))

\* The mutant of MetadataLoop: a non-matching line is kept as content but
\* the scan for metadata goes on (continue in place of break).
RECURSIVE MetadataLoopNoBreakFrom(_, _, _, _)
MetadataLoopNoBreakFrom(lines, i, metadata, kept) ==
    IF i > Len(lines)
    THEN [metadata |-> metadata, content |-> kept, next |-> i]
    ELSE LET match == MatchMetadata(lines[i])
         IN  IF match.tag = "NoMatch"
             THEN MetadataLoopNoBreakFrom(lines, i + 1, metadata,
                                          Append(kept, lines[i]))
             ELSE MetadataLoopNoBreakFrom(lines, i + 1,
                      DictSet(metadata, Strip(match.group1), Strip(match.group2)),
                      kept)

MetadataLoopNoBreak(lines, i, metadata) ==
    MetadataLoopNoBreakFrom(lines, i, metadata, <<>>)

\* The first loop of load_from_file, reading from line i: metadata items
\* until the first line that does not match, which becomes the first
\* content line; next is the line the file iterator stands at afterwards.
RECURSIVE MetadataLoop(_, _, _)
MetadataLoop(lines, i, metadata) ==
    IF i > Len(lines)
    THEN [metadata |-> metadata, content |-> <<>>, next |-> i]
    ELSE LET match == MatchMetadata(lines[i])
         IN  IF match.tag = "NoMatch"
             THEN [metadata |-> metadata, content |-> <<lines[i]>>, next |-> i + 1]
             ELSE MetadataLoop(lines, i + 1,
                      DictSet(metadata, Strip(match.group1), Strip(match.group2)))

\* Zettel.load_from_file(location), location having the stem zettel_id and
\* the file the given text.
load_from_file(zettel_id, text) ==
    IF ~MatchValidId(zettel_id)
    THEN ValueError("Path stem is not a valid zettel id")
    ELSE LET lines == SplitLines(text)
             first == MetadataLoop(lines, 1, <<>>)
             body  == first.content \o SubSeq(lines, first.next, Len(lines))
         IN  IF TITLE \notin DictKeys(first.metadata)
             THEN Zettel(zettel_id, zettel_id, first.metadata, body)
             ELSE Zettel(zettel_id, DictGet(first.metadata, TITLE),
                         DictDel(first.metadata, TITLE), body)

\* print(f"{key}: {value}", file=outfile)
PrintItem(item) == item[1] \o <<":", SP>> \o item[2] \o <<NL>>

\* Zettel.save_to_file(location): the text written to the file.
save_to_file(z) ==
    LET metadata == DictUpdate(<< <<TITLE, z.title>> >>, z.metadata)
    IN  Concat([i \in 1..Len(metadata) |-> PrintItem(metadata[i])])
            \o Concat(z.content)

(***************************************************************************)
(* The state of a part of the program that a specification leaves out.     *)
(***************************************************************************)
IdIdle    == obj = None /\ arg = <<>> /\ outcome = "none"
CodecIdle == stem = <<>> /\ file = <<>> /\ note = None /\ loaded = None
RefIdle   == content = <<>> /\ refs = None
SyncIdle  == pc = "off" /\ log = <<>> /\ err = None /\ exitCode = -1
StoreIdle == store = {} /\ saved = {} /\ last = None /\ editing = None

(***************************************************************************)
(* SpecId: constructing a Zettel and assigning Zettel.id.                  *)
(***************************************************************************)
IdChars   == {"a", "-", SP, NL, "/"}
IdStrings == StringsUpTo(IdChars, MaxIdLen)

InitId ==
    /\ obj = None /\ arg = <<>> /\ outcome = "none"
    /\ CodecIdle /\ RefIdle /\ SyncIdle /\ StoreIdle

\* obj = Zettel(s): on a ValueError nothing is bound.
Construct(s) ==
    /\ arg' = s
    /\ LET z == Zettel(s, <<>>, <<>>, <<>>)
       IN  IF z.tag = "Zettel"
           THEN obj' = z /\ outcome' = "ok"
           ELSE obj' = obj /\ outcome' = z.tag
    /\ UNCHANGED <<codecVars, refVars, syncVars, storeVars>>

\* obj.id = s on a constructed Zettel.
SetId(s) ==
    /\ obj.tag = "Zettel"
    /\ arg' = s
    /\ IF IdSetterRaises(s)
       THEN obj' = obj /\ outcome' = "ValueError"
       ELSE obj' = [obj EXCEPT !.id = s] /\ outcome' = "ok"
    /\ UNCHANGED <<codecVars, refVars, syncVars, storeVars>>

NextId ==
    \/ \E s \in IdStrings : Construct(s)
    \/ \E s \in IdStrings : SetId(s)

SpecId == InitId /\ [][NextId]_vars

\* C3: constructing a Zettel with id s, or assigning s to Zettel.id, succeeds
\* if and only if s is a non-empty string of word characters and hyphens
\* only; every other string (the empty one, one holding whitespace, a line
\* terminator or a path separator) fails with a validation error.
IdValidationExact ==
    outcome # "none" =>
        (outcome = "ok" <=>
            (arg # <<>> /\ \A i \in 1..Len(arg) : arg[i] \in IdClass))

(***************************************************************************)
(* SpecCodec: one note file, written by save_to_file or found on disk,     *)
(* and read by load_from_file.                                             *)
(***************************************************************************)
\* Lines a file on disk is made of.
FileLines ==
    {<<"k", ":", "v", NL>>,                       \* k:v
     <<"k", ":", SP, "w", SP, NL>>,               \* k: w (the key k again)
     <<"t", "i", "t", "l", "e", ":", SP, "t", NL>>, \* title: t
     <<"a", NL>>,                                 \* a
     <<NL>>,                                      \* a blank line
     <<"a", SP, "b", ":", "c", NL>>,              \* a b:c (no key before the colon)
     <<":", "v", NL>>,                            \* :v (an empty key)
     <<"k", ":", "v">>}                           \* k:v without a line feed

Files == {Concat(ls) : ls \in SeqsUpTo(FileLines, MaxLines)}

Stems == {<<"a">>, <<"a", SP, "b">>}

\* The notes offered to save_to_file.
Titles == {<<>>, <<"t">>, <<SP, "t">>}
Metadatas == {<<>>, << <<<<"k">>, <<"v">>>> >>, << <<<<"k">>, <<>>>> >>}
ContentLines == {<<"a", NL>>, <<NL>>, <<"k", ":", "v", NL>>, <<"a">>}

Notes(id) ==
    {Zettel(id, t, m, c) :
        t \in Titles, m \in Metadatas, c \in SeqsUpTo(ContentLines, MaxContent)}

InitCodec ==
    /\ stem \in Stems /\ file \in Files /\ note = None /\ loaded = None
    /\ IdIdle /\ RefIdle /\ SyncIdle /\ StoreIdle

\* n.save_to_file(location)
SaveToFile(n) ==
    /\ n.tag = "Zettel"
    /\ file' = save_to_file(n)
    /\ note' = n
    /\ loaded' = None
    /\ UNCHANGED <<stem, idVars, refVars, syncVars, storeVars>>

\* loaded = Zettel.load_from_file(location)
LoadFromFile ==
    /\ loaded' = load_from_file(stem, file)
    /\ UNCHANGED <<stem, file, note, idVars, refVars, syncVars, storeVars>>

NextCodec ==
    \/ \E n \in Notes(stem) : SaveToFile(n)
    \/ LoadFromFile

SpecCodec == InitCodec /\ [][NextCodec]_vars

\* C2: saving a note n with save_to_file and loading the written file with
\* load_from_file (the file stem being n.id) yields a note whose title,
\* metadata and content equal those of n.
RoundTrip ==
    (note.tag = "Zettel" /\ loaded.tag = "Zettel") =>
        /\ loaded.title = note.title
        /\ DictEq(loaded.metadata, note.metadata)
        /\ loaded.content = note.content

\* A line of the form <key>:<value>: a non-empty key of word characters and
\* hyphens, a colon, and a value that holds no line feed (the line's own
\* line feed may follow it).
HasPairForm(line) ==
    \E k \in 1..(Len(line) - 1) :
        /\ \A i \in 1..k : line[i] \in IdClass
        /\ line[k + 1] = ":"
        /\ \A i \in (k + 2)..(Len(line) - 1) : line[i] # NL

FirstColon(line) == CHOOSE k \in 1..Len(line) :
                        line[k] = ":" /\ \A i \in 1..(k - 1) : line[i] # ":"
KeyOf(line)   == SubSeq(line, 1, FirstColon(line) - 1)
ValueOf(line) == Strip(SubSeq(line, FirstColon(line) + 1, Len(line)))

\* The length of the maximal run of leading lines of the form <key>:<value>.
LeadingPairs(lines) ==
    CHOOSE p \in 0..Len(lines) :
        /\ \A i \in 1..p : HasPairForm(lines[i])
        /\ p = Len(lines) \/ ~HasPairForm(lines[p + 1])

\* C6: metadata is taken only from the maximal run of leading lines of the
\* form <key>:<value> (each key with the value of its last such line); the
\* first line not of that form and every line after it are the content,
\* verbatim and in order, even where a later line has the form of a pair.
\* A file whose first line is not a pair gives empty metadata and the whole
\* file as content.
MetadataPrefixOnly ==
    loaded.tag = "Zettel" =>
        LET lines == SplitLines(file)
            p     == LeadingPairs(lines)
            Last(k) == CHOOSE i \in 1..p :
                           /\ KeyOf(lines[i]) = k
                           /\ \A j \in (i + 1)..p : KeyOf(lines[j]) # k
        IN  /\ loaded.content = SubSeq(lines, p + 1, Len(lines))
            /\ DictKeys(loaded.metadata) = {KeyOf(lines[i]) : i \in 1..p} \ {TITLE}
            /\ \A k \in DictKeys(loaded.metadata) :
                   DictGet(loaded.metadata, k) = ValueOf(lines[Last(k)])
            /\ p = 0 => (loaded.metadata = <<>> /\ Concat(loaded.content) = file)

\* A file of a pair, a line that is no pair and another pair has been
\* loaded: the first pair is metadata, the last one is content.
MetadataPrefixOnlyWitness ==
    /\ loaded.tag = "Zettel"
    /\ file = <<"k", ":", "v", NL, "a", NL, "k", ":", SP, "w", SP, NL>>
    /\ loaded.metadata = << <<<<"k">>, <<"v">>>> >>
    /\ loaded.content = <<<<"a", NL>>, <<"k", ":", SP, "w", SP, NL>>>>

(***************************************************************************)
(* SpecRef: the citation scan of a note's content with ZETTEL_REF_PATTERN. *)
(***************************************************************************)
RefChars == {"@", "a", "w", "-", BS, SP}

ExampleLines ==
    {<<"s", "e", "e", SP, "@", "2", "0", "2", "0", "0", "3", "1", "4", "-",
       "n", "o", "t", "e", SP, "f", "o", "r", SP, "d", "e", "t", "a", "i",
       "l", "s">>,                                \* see @20200314-note for details
     <<"@", "a", SP, "@", "a", SP, "@", "b">>,    \* @a @a @b
     <<"n", "o", SP, "r", "e", "f", "s", NL>>}    \* no refs

RefContents ==
    SeqsUpTo(StringsUpTo(RefChars, MaxRefLen), 1) \cup SeqsUpTo(ExampleLines, 2)

\* The references of content lines: every match of ZETTEL_REF_PATTERN in
\* every line, as a set.
extract(lines) ==
    UNION {Range(FindAllRefs(lines[i], 1)) : i \in 1..Len(lines)}

InitRef ==
    /\ content \in RefContents /\ refs = None
    /\ IdIdle /\ CodecIdle /\ SyncIdle /\ StoreIdle

Extract ==
    /\ refs.tag = "None"
    /\ refs' = [tag |-> "Refs", ids |-> extract(content)]
    /\ UNCHANGED <<content, idVars, codecVars, syncVars, storeVars>>

NextRef == Extract

SpecRef == InitRef /\ [][NextRef]_vars

\* The runs of word characters and hyphens that immediately follow an @.
CitedIds(line) ==
    {SubSeq(line, i + 1, i + RunLen(line, i + 1, IdClass)) :
        i \in {j \in 1..Len(line) :
                  line[j] = "@" /\ RunLen(line, j + 1, IdClass) >= 1}}

\* C7: the set extracted from content lines is exactly the set of runs of
\* word characters and hyphens that immediately follow an @ in a line,
\* duplicates collapsed.
ExtractsCitedIds ==
    refs.tag = "Refs" =>
        refs.ids = UNION {CitedIds(content[i]) : i \in 1..Len(content)}

(***************************************************************************)
(* SpecSync: one run of `zk sync`, main() calling SyncAction.__call__.     *)
(* Every shell command is one step; its report is any report the shell can *)
(* give: succeeded or not, with any captured output.                       *)
(***************************************************************************)
GIT_STATUS == "git status --porcelain"
GIT_ADD    == "git add ."
GIT_COMMIT == "git commit -m updates"
GIT_PULL   == "git pull --rebase"
GIT_PUSH   == "git push"

Outputs == SeqsUpTo({<<"M">>}, MaxOutput)

\* Zettelkasten.sh(cmd): the reports the command can end with.
sh(cmd) ==
    {[cmd |-> cmd, succeeded |-> ok, output |-> out] :
        ok \in BOOLEAN, out \in Outputs}

ShellError(msg, report) == [tag |-> "ShellError", msg |-> msg, report |-> report]

\* The mutant of has_changes: changes are always reported.
has_changes_always(report) == TRUE

\* Zettelkasten.has_changes, given the report of `git status --porcelain`.
has_changes(report) == Len(report.output) > 0

\* The mutant of commit_changes_add: the report of `git add .` is not looked at.
commit_changes_add_unchecked(report) == None

\* Zettelkasten.commit_changes, after `git add .`: the error raised, if any.
commit_changes_add(report) ==
    IF ~report.succeeded
    THEN ShellError("Failed to add files to commit.", report) ELSE None

\* Zettelkasten.commit_changes, after `git commit -m updates`.
commit_changes_commit(report) ==
    IF ~report.succeeded THEN ShellError("Failed to commit.", report) ELSE None

\* Zettelkasten.fetch_and_rebase, after `git pull --rebase`.
fetch_and_rebase(report) ==
    IF ~report.succeeded
    THEN ShellError("Failed to fetch remote updates.", report) ELSE None

\* Zettelkasten.push, after `git push`.
push(report) ==
    IF ~report.succeeded
    THEN ShellError("Failed to push to remote origin.", report) ELSE None

InitSync ==
    /\ pc = "has_changes" /\ log = <<>> /\ err = None /\ exitCode = -1
    /\ IdIdle /\ CodecIdle /\ RefIdle /\ StoreIdle

\* A step that runs one command and raises what `raised` gives for its
\* report, or goes on to `next`.
Step(report, raised, next) ==
    /\ log' = Append(log, report)
    /\ IF raised.tag = "ShellError"
       THEN pc' = "raise" /\ err' = raised
       ELSE pc' = next /\ err' = err
    /\ UNCHANGED <<exitCode, idVars, codecVars, refVars, storeVars>>

\* if self.zk.has_changes():
HasChanges ==
    /\ pc = "has_changes"
    /\ \E report \in sh(GIT_STATUS) :
          Step(report, None,
               IF has_changes(report) THEN "commit_changes" ELSE "fetch_and_rebase")

\* self.zk.commit_changes(): git add .
CommitChangesAdd ==
    /\ pc = "commit_changes"
    /\ \E report \in sh(GIT_ADD) :
          Step(report, commit_changes_add(report), "commit")

\* self.zk.commit_changes(): git commit -m updates
CommitChangesCommit ==
    /\ pc = "commit"
    /\ \E report \in sh(GIT_COMMIT) :
          Step(report, commit_changes_commit(report), "fetch_and_rebase")

\* self.zk.fetch_and_rebase()
FetchAndRebase ==
    /\ pc = "fetch_and_rebase"
    /\ \E report \in sh(GIT_PULL) :
          Step(report, fetch_and_rebase(report), "push")

\* self.zk.push(), and return 0
Push ==
    /\ pc = "push"
    /\ \E report \in sh(GIT_PUSH) :
          Step(report, push(report), "return")

\* main: sys.exit(action()) with the 0 SyncAction.__call__ returned.
SysExit ==
    /\ pc = "return"
    /\ pc' = "exit" /\ exitCode' = 0
    /\ UNCHANGED <<log, err, idVars, codecVars, refVars, storeVars>>

\* main: except ShellError: the failing command is reported, sys.exit(1).
CatchShellError ==
    /\ pc = "raise"
    /\ pc' = "exit" /\ exitCode' = 1
    /\ UNCHANGED <<log, err, idVars, codecVars, refVars, storeVars>>

NextSync ==
    \/ HasChanges
    \/ CommitChangesAdd
    \/ CommitChangesCommit
    \/ FetchAndRebase
    \/ Push
    \/ SysExit
    \/ CatchShellError

SpecSync == InitSync /\ [][NextSync]_vars

Cmds(l) == [i \in 1..Len(l) |-> l[i].cmd]

IsPrefix(s, t) == Len(s) <= Len(t) /\ s = SubSeq(t, 1, Len(s))

StagedSteps == {GIT_ADD, GIT_COMMIT, GIT_PULL, GIT_PUSH}

\* C1: if `git add .`, `git commit -m updates`, `git pull --rebase` or
\* `git push` reports failure, no later command is executed in the run, and
\* the run ends with a ShellError holding the failing step's report and a
\* non-zero exit code, not with the return of 0.
FailedStepAbortsRun ==
    \A i \in 1..Len(log) :
        (log[i].cmd \in StagedSteps /\ ~log[i].succeeded) =>
            /\ i = Len(log)
            /\ pc \in {"raise", "exit"}
            /\ err.tag = "ShellError" /\ err.report = log[i]
            /\ pc = "exit" => exitCode = 1

\* The run has ended with exit code 1 after `git pull --rebase` failed.
FailedStepAbortsRunWitness ==
    /\ pc = "exit" /\ exitCode = 1
    /\ log # <<>>
    /\ log[Len(log)].cmd = GIT_PULL /\ ~log[Len(log)].succeeded

\* C4: the commands of a run are issued in the order status, (add, commit),
\* pull --rebase, push; add and commit are issued only when
\* `git status --porcelain` gave output, and without output the run goes
\* from status directly to pull --rebase and push.
CommandsInOrder ==
    log # <<>> =>
        IsPrefix(Cmds(log),
                 IF log[1].output # <<>>
                 THEN <<GIT_STATUS, GIT_ADD, GIT_COMMIT, GIT_PULL, GIT_PUSH>>
                 ELSE <<GIT_STATUS, GIT_PULL, GIT_PUSH>>)

\* A run has returned 0 without add or commit, status having given no output.
CommandsInOrderWitness ==
    /\ pc = "exit" /\ exitCode = 0
    /\ Cmds(log) = <<GIT_STATUS, GIT_PULL, GIT_PUSH>>
    /\ log[1].output = <<>>

\* C10: if `git status --porcelain` reports failure, the run stops with an
\* error and none of add, commit, pull --rebase, push is executed afterwards.
StatusFailureIsFatal ==
    (log # <<>> /\ ~log[1].succeeded) =>
        /\ Len(log) = 1
        /\ pc = "exit" => exitCode # 0

(***************************************************************************)
(* SpecStore: a Zettelkasten directory, as the set of its files, and the   *)
(* operations and commands on it.  The identifiers offered are single path *)
(* components (no path separator, no dot).  last records the latest        *)
(* operation, its result and the directory as it was before it.            *)
(***************************************************************************)
MD == <<".", "m", "d">>

\* Zettelkasten.path_for_zettel_id: the file's name in the directory.
path_for_zettel_id(zettel_id) == zettel_id \o MD

\* Path.exists()
PathExists(st, path) == \E f \in st : f.path = path

\* open(path, "r"): the file's text.
ReadFile(st, path) == (CHOOSE f \in st : f.path = path).text

\* open(path, "w") and the writes: the file is created or replaced.
WriteFile(st, path, text) ==
    {f \in st : f.path # path} \cup {[path |-> path, text |-> text]}

\* Path.stem: the name without its last suffix (a name that is only a
\* suffix, such as .md, is its own stem).
PathStem(path) ==
    IF Len(path) > Len(MD) /\ SubSeq(path, Len(path) - 2, Len(path)) = MD
    THEN SubSeq(path, 1, Len(path) - Len(MD)) ELSE path

\* The mutant of contains: the path is checked without its .md suffix.
contains_no_suffix(st, zettel_id) == PathExists(st, zettel_id)

\* Zettelkasten.contains
contains(st, zettel_id) == PathExists(st, path_for_zettel_id(zettel_id))

NotFound == ValueError("Zettel does not exist in the zettelkasten.")

\* Zettelkasten.load
load(st, zettel_id) ==
    IF ~contains(st, zettel_id) THEN NotFound
    ELSE LET path == path_for_zettel_id(zettel_id)
         IN  load_from_file(PathStem(path), ReadFile(st, path))

\* Zettelkasten.save: the directory afterwards.
save(st, z) == WriteFile(st, path_for_zettel_id(z.id), save_to_file(z))

\* Zettelkasten.graph: a stub (its body is pass), which returns None.
graph(st) == None

\* ZettelAction.setup: the command's zettel, loaded if the store contains
\* the id and a fresh Zettel(id) otherwise (or the ValueError of either).
setup(st, zettel_id) ==
    IF contains(st, zettel_id) THEN load(st, zettel_id)
    ELSE Zettel(zettel_id, <<>>, <<>>, <<>>)

\* The mutant of EditZettel_saves: the zettel is saved whether or not its
\* file exists.
EditZettel_saves_always(st, z) == TRUE

\* EditZettel.__call__: if not path.exists()
EditZettel_saves(st, z) == ~PathExists(st, path_for_zettel_id(z.id))

\* PrepareZettelFile.__call__: if not self.zk.contains(self.zettel.id)
PrepareZettelFile_saves(st, z) == ~contains(st, z.id)

\* The identifiers the operations and commands are given.
StoreIds == {<<"a">>, <<"w">>, <<"a", NL>>, <<"a", SP, "b">>, <<>>}

\* The notes given to save.
StoreNotes ==
    {Zettel(id, t, <<>>, c) :
        id \in {<<"a">>, <<"w">>}, t \in {<<>>, <<"t">>},
        c \in SeqsUpTo({<<"@", "w", NL>>}, MaxContent)}

\* What an editor may leave in the file it was started on.
EditorTexts ==
    {<<"x", NL, "k", ":", "v", NL>>,
     <<"t", "i", "t", "l", "e", ":", SP, "t", NL, "k", ":", "v", NL, "@", "a", NL>>}

Op(op, id, result) ==
    [tag |-> "Op", op |-> op, id |-> id, result |-> result, before |-> store]

InitStore ==
    /\ store = {} /\ saved = {} /\ last = None /\ editing = None
    /\ IdIdle /\ CodecIdle /\ RefIdle /\ SyncIdle

\* zk.save(z)
Save(z) ==
    /\ editing.tag = "None"
    /\ store' = save(store, z)
    /\ saved' = saved \cup {z.id}
    /\ last' = Op("save", z.id, None)
    /\ UNCHANGED <<editing, idVars, codecVars, refVars, syncVars>>

\* zk.contains(id)
Contains(id) ==
    /\ editing.tag = "None"
    /\ last' = Op("contains", id, [tag |-> "bool", value |-> contains(store, id)])
    /\ UNCHANGED <<store, saved, editing, idVars, codecVars, refVars, syncVars>>

\* zk.load(id)
Load(id) ==
    /\ editing.tag = "None"
    /\ last' = Op("load", id, load(store, id))
    /\ UNCHANGED <<store, saved, editing, idVars, codecVars, refVars, syncVars>>

\* zk.graph()
Graph ==
    /\ editing.tag = "None"
    /\ last' = Op("graph", <<>>, graph(store))
    /\ UNCHANGED <<store, saved, editing, idVars, codecVars, refVars, syncVars>>

\* A command on the zettel z that setup gave: a ValueError of setup ends
\* the command; otherwise its __call__ saves z if `saves` holds and, for
\* edit, starts the editor on the zettel's path.
Command(name, id, z, saves, editor) ==
    IF z.tag # "Zettel"
    THEN /\ last' = Op(name, id, z)
         /\ UNCHANGED <<store, saved, editing>>
    ELSE /\ IF saves
            THEN store' = save(store, z) /\ saved' = saved \cup {z.id}
            ELSE UNCHANGED <<store, saved>>
         /\ last' = Op(name, id, None)
         /\ editing' = IF editor
                       THEN [tag |-> "Path", path |-> path_for_zettel_id(z.id)]
                       ELSE editing

\* `zk edit ID`, up to the start of the editor.
EditZettel(id) ==
    /\ editing.tag = "None"
    /\ LET z == setup(store, id)
       IN  Command("edit", id, z,
                   z.tag = "Zettel" /\ EditZettel_saves(store, z), TRUE)
    /\ UNCHANGED <<idVars, codecVars, refVars, syncVars>>

\* `zk _prepare ID`
PrepareZettelFile(id) ==
    /\ editing.tag = "None"
    /\ LET z == setup(store, id)
       IN  Command("_prepare", id, z,
                   z.tag = "Zettel" /\ PrepareZettelFile_saves(store, z), FALSE)
    /\ UNCHANGED <<idVars, codecVars, refVars, syncVars>>

\* check_call([editor, path]): the editor leaves the file as it is or
\* rewrites it, and the command returns.
EditorExits ==
    /\ editing.tag = "Path"
    /\ \E text \in EditorTexts \cup {ReadFile(store, editing.path)} :
          store' = WriteFile(store, editing.path, text)
    /\ editing' = None
    /\ last' = Op("editor", PathStem(editing.path), None)
    /\ UNCHANGED <<saved, idVars, codecVars, refVars, syncVars>>

NextStore ==
    \/ \E z \in StoreNotes : Save(z)
    \/ \E id \in StoreIds : Contains(id)
    \/ \E id \in StoreIds : Load(id)
    \/ \E id \in StoreIds : EditZettel(id)
    \/ \E id \in StoreIds : PrepareZettelFile(id)
    \/ EditorExits
    \/ Graph

SpecStore == InitStore /\ [][NextStore]_vars

\* C5: contains(id) is false before any save of a note with that id and
\* true right after one; contains and load leave the store as it was; and
\* load(id) fails with the not-found error exactly when contains(id) is
\* false, and otherwise returns a whole note with that id.
StoreContract ==
    /\ \A id \in StoreIds : id \notin saved => ~contains(store, id)
    /\ last.tag = "Op" =>
        /\ last.op = "save" => contains(store, last.id)
        /\ last.op \in {"contains", "load"} => store = last.before
        /\ last.op = "contains" => last.result.value = (last.id \in saved)
        /\ last.op = "load" =>
            /\ last.result = NotFound <=> ~contains(last.before, last.id)
            /\ last.result # NotFound =>
                /\ last.result.tag = "Zettel"
                /\ DOMAIN last.result = {"tag", "id", "title", "metadata", "content"}
                /\ last.result.id = last.id

\* The note w has been saved and loaded whole while no note a was ever saved.
StoreContractWitness ==
    /\ last.tag = "Op" /\ last.op = "load" /\ last.id = <<"w">>
    /\ last.result.tag = "Zettel"
    /\ <<"w">> \in saved /\ <<"a">> \notin saved

\* C8: graph build returns a (node, warnings) result whose edges mirror the
\* citations in both directions: for stored notes S and T, T is in S's
\* downstream exactly when S's content cites T's id, and exactly then S is
\* in T's upstream; a citation of an id with no stored note makes no edge
\* and adds a warning.
GraphMirrorsCitations ==
    (last.tag = "Op" /\ last.op = "graph" /\ last.before # {}) =>
        /\ last.result.tag = "Graph"
        /\ LET ids == {PathStem(f.path) : f \in last.before}
               Cites(S, T) ==
                   \E line \in Range(load(last.before, S).content) :
                       T \in CitedIds(line)
           IN  /\ DOMAIN last.result.nodes = ids
               /\ \A S \in ids, T \in ids :
                      /\ T \in last.result.nodes[S].downstream <=> Cites(S, T)
                      /\ S \in last.result.nodes[T].upstream <=> Cites(S, T)
               /\ (\E S \in ids, T \in StoreIds \ ids : Cites(S, T))
                      <=> last.result.warnings # <<>>

\* C9: for a valid id, edit and _prepare save a fresh note (title = id, no
\* metadata, no content) when the id has no file, and write nothing when it
\* has one: the directory is then as it was before the command.
CreatesOnlyIfAbsent ==
    (last.tag = "Op" /\ last.op \in {"edit", "_prepare"} /\ MatchValidId(last.id)) =>
        LET path  == path_for_zettel_id(last.id)
            fresh == [tag |-> "Zettel", id |-> last.id, title |-> last.id,
                      metadata |-> <<>>, content |-> <<>>]
        IN  /\ last.result = None
            /\ IF PathExists(last.before, path)
               THEN store = last.before
               ELSE store = last.before
                               \cup {[path |-> path, text |-> save_to_file(fresh)]}

\* edit has run on a note whose file an editor had rewritten before, and
\* the file still holds the editor's text.
CreatesOnlyIfAbsentWitness ==
    /\ last.tag = "Op" /\ last.op = "edit" /\ last.id = <<"a">>
    /\ PathExists(last.before, path_for_zettel_id(last.id))
    /\ ReadFile(store, path_for_zettel_id(last.id)) \in EditorTexts

====
